---- MODULE Spec2Model ----
(***************************************************************************)
(* Model of graph_core.py: the DependencyGraph store (an insertion-ordered *)
(* dict from package name to the set of its dependencies), its builders    *)
(* (add_edge, from_edges, from_test_file), breadth-first reachability,     *)
(* Kahn's load order, the DOT renderer and the ASCII tree renderer.        *)
(*                                                                         *)
(* A Python dict is modelled as a record [keys, val]: keys is the sequence *)
(* of keys in insertion order (the order dict iteration uses), val the     *)
(* mapping.  A Python set has no defined iteration order (string hashes    *)
(* are randomised per process), so every operation that iterates over a    *)
(* set takes the order as an input: a permutation perm of the names, and a *)
(* set is iterated in the order its members occur in perm.                 *)
(***************************************************************************)
EXTENDS Integers, Sequences, FiniteSets, TLC

\* ------------------------------------------------------------------ bounds

\* add_edge calls made on a store built by insertions
MaxCalls == 3
\* lines of the text given to from_test_file
MaxLines == 2

\* ------------------------------------------------------------ input values

\* package names given to add_edge
Names == {"A", "B", "C"}
\* a root that is never inserted into any store
Unknown == "Z"
\* every name a modelled store can hold, in the lexicographic order that
\* Python's sorted() gives to these strings
NameOrder == <<"", "A", "AB", "B", "B:C", "C", "D">>
\* the whitespace characters str.strip() and str.split() remove
Whitespace == {" ", "\t"}
\* raw lines of a test repository file (after splitlines), character by
\* character
SampleLines ==
    { <<>>,
      <<" ", "\t">>,
      <<"#", "A", ":", "B">>,
      <<" ", "#">>,
      <<"A", ":">>,
      <<" ", "C", " ", ":", " ">>,
      <<"A", ":", "B", " ", "C">>,
      <<"A", ":", " ", "B", "\t", "B">>,
      <<"B", ":", "D">>,
      <<"B", ":", "A">>,
      <<"D", ":", "D">>,
      <<"C", ":", "C", " ", "B", " ", "D">>,
      <<"A", "B", ":", "A">>,
      <<":", "B">>,
      <<":">>,
      <<"A", " ", "B">>,
      <<" ", "A", "#", "B", " ">>,
      <<"A", ":", "B", ":", "C">> }

\* ------------------------------------------------------------- dict helpers

EmptyDict == [keys |-> <<>>, val |-> <<>>]

KeySet(d) == DOMAIN d.val

Range(s) == {s[i] : i \in DOMAIN s}

\* dict.setdefault(k, v): inserts k at the end of the key order when absent
setdefault(d, k, v) ==
    IF k \in KeySet(d) THEN d
    ELSE [keys |-> Append(d.keys, k), val |-> d.val @@ (k :> v)]

\* dict.get(k, default)
get(d, k, default) == IF k \in KeySet(d) THEN d.val[k] ELSE default

\* dict[k] = v
setitem(d, k, v) ==
    IF k \in KeySet(d) THEN [d EXCEPT !.val[k] = v]
    ELSE [keys |-> Append(d.keys, k), val |-> d.val @@ (k :> v)]

\* the members of set S in the iteration order given by perm
IterSet(S, perm) == SelectSeq(perm, LAMBDA x : x \in S)

\* all orders in which the members of S can be iterated
RECURSIVE Perms(_)
Perms(S) ==
    IF S = {} THEN {<<>>}
    ELSE UNION {{<<x>> \o p : p \in Perms(S \ {x})} : x \in S}

\* position of x in sequence s (0 when absent)
IndexOf(s, x) == IF x \in Range(s) THEN CHOOSE i \in DOMAIN s : s[i] = x ELSE 0

\* every name that occurs in the dict, as a key or inside an out-set
Mentioned(d) == KeySet(d) \cup UNION {d.val[k] : k \in KeySet(d)}

\* ---------------------------------------------------------------- add_edge

\* add_edge that forgets to register dst
add_edge_no_dst(adj, src, dst) ==
    LET a1 == setdefault(adj, src, {})
    IN  [a1 EXCEPT !.val[src] = @ \cup {dst}]

\* add_edge that toggles dst in the out-set of src (^= for |=)
add_edge_toggle(adj, src, dst) ==
    LET a1 == setdefault(adj, src, {})
        a2 == [a1 EXCEPT !.val[src] = (@ \ {dst}) \cup ({dst} \ @)]
    IN  setdefault(a2, dst, {})

\* DependencyGraph.add_edge: adjacency is a defaultdict(set), so
\* adjacency[src] creates src when absent; then dst is registered
add_edge(adj, src, dst) ==
    LET a1 == setdefault(adj, src, {})
        a2 == [a1 EXCEPT !.val[src] = @ \cup {dst}]
    IN  setdefault(a2, dst, {})

\* DependencyGraph.from_edges: a fresh store, add_edge for every pair
RECURSIVE add_edges(_, _)
add_edges(adj, edges) ==
    IF edges = <<>> THEN adj
    ELSE add_edges(add_edge(adj, Head(edges)[1], Head(edges)[2]), Tail(edges))

from_edges(edges) == add_edges(EmptyDict, edges)

\* ----------------------------------------------------------- string helpers

\* str.lstrip() / str.rstrip() / str.strip() on a sequence of characters
RECURSIVE lstrip(_)
lstrip(s) ==
    IF s # <<>> /\ Head(s) \in Whitespace THEN lstrip(Tail(s)) ELSE s

RECURSIVE rstrip(_)
rstrip(s) ==
    IF s # <<>> /\ s[Len(s)] \in Whitespace THEN rstrip(SubSeq(s, 1, Len(s) - 1)) ELSE s

strip(s) == rstrip(lstrip(s))

\* the characters joined into one string
RECURSIVE Str(_)
Str(s) == IF s = <<>> THEN "" ELSE Head(s) \o Str(Tail(s))

\* index of the first ':' of s (0 when there is none)
RECURSIVE find_colon(_, _)
find_colon(s, i) ==
    IF i > Len(s) THEN 0
    ELSE IF s[i] = ":" THEN i
    ELSE find_colon(s, i + 1)

\* str.split(): the maximal runs of non-whitespace characters, as strings
RECURSIVE split(_, _, _)
split(s, cur, acc) ==
    IF s = <<>> THEN (IF cur = <<>> THEN acc ELSE Append(acc, Str(cur)))
    ELSE IF Head(s) \in Whitespace
         THEN split(Tail(s), <<>>, IF cur = <<>> THEN acc ELSE Append(acc, Str(cur)))
         ELSE split(Tail(s), Append(cur, Head(s)), acc)

\* ----------------------------------------------------------- from_test_file

\* the loop of from_test_file with a line without ':' skipped instead of
\* raising
RECURSIVE parse_lines_lenient(_, _)
parse_lines_lenient(g, raw_lines) ==
    IF raw_lines = <<>> THEN [g |-> g, error |-> FALSE, line |-> <<>>]
    ELSE
      LET line == strip(Head(raw_lines))
          c    == find_colon(line, 1)
          src  == Str(strip(SubSeq(line, 1, c - 1)))
          deps_str == strip(SubSeq(line, c + 1, Len(line)))
          deps == split(deps_str, <<>>, <<>>)
          edges == [i \in DOMAIN deps |-> <<src, deps[i]>>]
      IN  IF line = <<>> \/ Head(line) = "#" \/ c = 0
            THEN parse_lines_lenient(g, Tail(raw_lines))
          ELSE IF deps_str = <<>>
            THEN parse_lines_lenient(setdefault(g, src, {}), Tail(raw_lines))
          ELSE parse_lines_lenient(add_edges(g, edges), Tail(raw_lines))

\* the loop of from_test_file over the remaining raw lines; the result is
\* [g, error, line]: the store under construction, whether ValueError was
\* raised, and the line the error message names
RECURSIVE parse_lines(_, _)
parse_lines(g, raw_lines) ==
    IF raw_lines = <<>> THEN [g |-> g, error |-> FALSE, line |-> <<>>]
    ELSE
      LET line == strip(Head(raw_lines))
          c    == find_colon(line, 1)
          src  == Str(strip(SubSeq(line, 1, c - 1)))
          deps_str == strip(SubSeq(line, c + 1, Len(line)))
          deps == split(deps_str, <<>>, <<>>)
          edges == [i \in DOMAIN deps |-> <<src, deps[i]>>]
      IN  IF line = <<>> \/ Head(line) = "#"
            THEN parse_lines(g, Tail(raw_lines))
          ELSE IF c = 0
            THEN [g |-> g, error |-> TRUE, line |-> line]
          ELSE IF deps_str = <<>>
            THEN parse_lines(setdefault(g, src, {}), Tail(raw_lines))
          ELSE parse_lines(add_edges(g, edges), Tail(raw_lines))

\* DependencyGraph.from_test_file on the lines of an existing file; when
\* error is TRUE the call raised ValueError and g, the partly built store,
\* is a local the caller never receives
from_test_file(raw_lines) == parse_lines(EmptyDict, raw_lines)

\* -------------------------------------------------------- bfs_dependencies

\* the neighbour loop with the visited test inverted
RECURSIVE bfs_enqueue_inverted(_, _, _)
bfs_enqueue_inverted(queue, neighs, visited) ==
    IF neighs = <<>> THEN queue
    ELSE bfs_enqueue_inverted(IF Head(neighs) \in visited THEN Append(queue, Head(neighs)) ELSE queue,
                              Tail(neighs), visited)

\* for neigh in adjacency.get(node, ()): if neigh not in visited: append
RECURSIVE bfs_enqueue(_, _, _)
bfs_enqueue(queue, neighs, visited) ==
    IF neighs = <<>> THEN queue
    ELSE bfs_enqueue(IF Head(neighs) \notin visited THEN Append(queue, Head(neighs)) ELSE queue,
                     Tail(neighs), visited)

\* the record of the queue.append calls of one neighbour loop: an entry per
\* neighbour the loop appended, with whether it was in visited at that moment
RECURSIVE bfs_appends(_, _, _)
bfs_appends(log, neighs, visited) ==
    IF neighs = <<>> THEN log
    ELSE bfs_appends(IF bfs_enqueue(<<>>, <<Head(neighs)>>, visited) # <<>>
                       THEN Append(log, [node |-> Head(neighs), seen |-> Head(neighs) \in visited])
                       ELSE log,
                     Tail(neighs), visited)

\* the while loop of bfs_dependencies; the result is [visited, order] and
\* the record of what entered the queue
RECURSIVE bfs_loop(_, _, _, _, _, _)
bfs_loop(adj, queue, visited, order, log, perm) ==
    IF queue = <<>> THEN [visited |-> visited, order |-> order, enqueued |-> log]
    ELSE
      LET node == Head(queue)
      IN  IF node \in visited
            THEN bfs_loop(adj, Tail(queue), visited, order, log, perm)
          ELSE
            LET visited1 == visited \cup {node}
                neighs   == IterSet(get(adj, node, {}), perm)
            IN  bfs_loop(adj, bfs_enqueue(Tail(queue), neighs, visited1),
                         visited1, Append(order, node),
                         bfs_appends(log, neighs, visited1), perm)

\* queue = deque([root]) and the loop
bfs_traverse(adj, root, perm) ==
    bfs_loop(adj, <<root>>, {}, <<>>, <<[node |-> root, seen |-> FALSE]>>, perm)

\* subgraph[node] = set(adjacency.get(node, set())) & visited, for node in order
RECURSIVE bfs_subgraph(_, _, _, _)
bfs_subgraph(adj, order, visited, subgraph) ==
    IF order = <<>> THEN subgraph
    ELSE bfs_subgraph(adj, Tail(order), visited,
                      setitem(subgraph, Head(order), get(adj, Head(order), {}) \cap visited))

\* bfs_dependencies without the test for an unknown root
bfs_dependencies_unguarded(adj, root, perm) ==
    LET r == bfs_traverse(adj, root, perm)
    IN  bfs_subgraph(adj, r.order, r.visited, EmptyDict)

\* DependencyGraph.bfs_dependencies
bfs_dependencies(adj, root, perm) ==
    IF root \notin KeySet(adj) THEN EmptyDict
    ELSE LET r == bfs_traverse(adj, root, perm)
         IN  bfs_subgraph(adj, r.order, r.visited, EmptyDict)

\* what entered the queue during bfs_dependencies, in order
bfs_enqueued(adj, root, perm) ==
    IF root \notin KeySet(adj) THEN <<>> ELSE bfs_traverse(adj, root, perm).enqueued

\* ----------------------------------------------------- reverse_dependencies

\* for dst in targets: rev.add_edge(dst, src)
RECURSIVE reverse_targets(_, _, _)
reverse_targets(rev, src, targets) ==
    IF targets = <<>> THEN rev
    ELSE reverse_targets(add_edge(rev, Head(targets), src), src, Tail(targets))

\* the loop over adjacency.items() that never registers a vertex without
\* out-edges
RECURSIVE reverse_loop_edges_only(_, _, _, _)
reverse_loop_edges_only(adj, srcs, rev, perm) ==
    IF srcs = <<>> THEN rev
    ELSE reverse_loop_edges_only(adj, Tail(srcs),
                                 reverse_targets(rev, Head(srcs), IterSet(adj.val[Head(srcs)], perm)),
                                 perm)

\* the loop of reverse_dependencies over adjacency.items()
RECURSIVE reverse_loop(_, _, _, _)
reverse_loop(adj, srcs, rev, perm) ==
    IF srcs = <<>> THEN rev
    ELSE
      LET src     == Head(srcs)
          targets == adj.val[src]
          rev1    == IF targets = {} THEN setdefault(rev, src, {}) ELSE rev
      IN  reverse_loop(adj, Tail(srcs), reverse_targets(rev1, src, IterSet(targets, perm)), perm)

\* DependencyGraph.reverse_dependencies: the adjacency of the new store
reverse_dependencies(adj, perm) == reverse_loop(adj, adj.keys, EmptyDict, perm)

\* --------------------------------------------------------------- load_order

\* the degree count with indegree[src] += 1 for indegree[dst] += 1
indegrees_of_sources(reachable) ==
    [v \in KeySet(reachable) |-> Cardinality(reachable.val[v])]

\* indegree[dst] += 1 for every dst of every src of the reachable subgraph
indegrees(reachable) ==
    [v \in KeySet(reachable) |->
        Cardinality({src \in KeySet(reachable) : v \in reachable.val[src]})]

\* for neigh in reachable.get(node, ()): decrement, enqueue at zero; the
\* result is [indegree, queue]
RECURSIVE kahn_relax(_, _, _)
kahn_relax(indegree, queue, neighs) ==
    IF neighs = <<>> THEN [indegree |-> indegree, queue |-> queue]
    ELSE
      LET neigh == Head(neighs)
          deg   == indegree[neigh] - 1
      IN  kahn_relax([indegree EXCEPT ![neigh] = deg],
                     IF deg = 0 THEN Append(queue, neigh) ELSE queue,
                     Tail(neighs))

\* the while loop of load_order; the result is order
RECURSIVE kahn_loop(_, _, _, _, _)
kahn_loop(reachable, indegree, queue, order, perm) ==
    IF queue = <<>> THEN order
    ELSE
      LET node == Head(queue)
          r    == kahn_relax(indegree, Tail(queue), IterSet(get(reachable, node, {}), perm))
      IN  kahn_loop(reachable, r.indegree, r.queue, Append(order, node), perm)

\* load_order with the vertices left on cycles put in front of the order
load_order_tail_first(adj, root, perm) ==
    LET reachable == bfs_dependencies(adj, root, perm)
        indegree  == indegrees(reachable)
        queue     == SelectSeq(reachable.keys, LAMBDA v : indegree[v] = 0)
        order     == kahn_loop(reachable, indegree, queue, <<>>, perm)
    IN  IF reachable.keys = <<>> THEN <<>>
        ELSE IF Len(order) < Len(reachable.keys)
          THEN SelectSeq(reachable.keys, LAMBDA v : v \notin Range(order)) \o order
        ELSE order

\* load_order without the fallback that appends the vertices left on cycles
load_order_no_fallback(adj, root, perm) ==
    LET reachable == bfs_dependencies(adj, root, perm)
        indegree  == indegrees(reachable)
        queue     == SelectSeq(reachable.keys, LAMBDA v : indegree[v] = 0)
    IN  IF reachable.keys = <<>> THEN <<>>
        ELSE kahn_loop(reachable, indegree, queue, <<>>, perm)

\* DependencyGraph.load_order
load_order(adj, root, perm) ==
    LET reachable == bfs_dependencies(adj, root, perm)
        indegree  == indegrees(reachable)
        queue     == SelectSeq(reachable.keys, LAMBDA v : indegree[v] = 0)
        order     == kahn_loop(reachable, indegree, queue, <<>>, perm)
    IN  IF reachable.keys = <<>> THEN <<>>
        ELSE IF Len(order) < Len(reachable.keys)
          THEN order \o SelectSeq(reachable.keys, LAMBDA v : v \notin Range(order))
        ELSE order

\* -------------------------------------------------------------- to_graphviz

\* the lines of one node with no standalone line for a node without out-edges
graphviz_node_edges_only(sub, node, perm) ==
    IF node \notin KeySet(sub) THEN <<>>
    ELSE LET dsts == IterSet(sub.val[node], perm)
         IN  [i \in DOMAIN dsts |-> <<"    \"", node, "\" -> \"", dsts[i], "\";">>]

\* the lines appended for one node: the pieces of the f-string, in order
graphviz_node(sub, node, perm) ==
    IF node \notin KeySet(sub) \/ sub.val[node] = {}
      THEN << <<"    \"", node, "\";">> >>
    ELSE LET dsts == IterSet(sub.val[node], perm)
         IN  [i \in DOMAIN dsts |-> <<"    \"", node, "\" -> \"", dsts[i], "\";">>]

\* for node in nodes: append its lines
RECURSIVE graphviz_lines(_, _, _, _)
graphviz_lines(sub, nodes, lines, perm) ==
    IF nodes = <<>> THEN lines
    ELSE graphviz_lines(sub, Tail(nodes), lines \o graphviz_node(sub, Head(nodes), perm), perm)

\* DependencyGraph.to_graphviz; root is <<>> for None and <<name>> for a
\* given name; the result is the list of lines joined by "\n"
to_graphviz(adj, root, perm) ==
    LET sub == IF root # <<>> THEN bfs_dependencies(adj, root[1], perm) ELSE adj
    IN  graphviz_lines(sub, sub.keys, << <<"digraph deps {">> >>, perm) \o << <<"}">> >>

\* --------------------------------------------------------------- ascii_tree

\* the pieces a prefix is concatenated from, the connectors and the markers
\* (the box-drawing characters are written in ASCII)
Indent   == "    "
Bar      == "|   "
Tee      == "|-- "
Ell      == "+-- "
Repeated == " (...)"
Absent   == " (not in graph)"

\* sorted(S) for a set of names
sorted(S) == SelectSeq(NameOrder, LAMBDA x : x \in S)

\* walk(node, prefix, is_last) of ascii_tree, and its loop over the children
\* from the i-th on; st is [lines, visited], the two variables of the
\* enclosing call that walk updates.  A line is [prefix, node, marker], the
\* fields of the formatted string: line_prefix as the sequence of the pieces
\* concatenated into it, the node name, and the text after the name
RECURSIVE walk(_, _, _, _, _)
RECURSIVE walk_children(_, _, _, _, _, _)

\* walk that returns from a repeated vertex without a line for it
walk_silent_repeat(adj, node, prefix, is_last, st) ==
    LET connector   == IF is_last THEN Ell ELSE Tee
        line_prefix == IF prefix # <<>> THEN Append(prefix, connector) ELSE <<>>
    IN  IF node \in st.visited THEN st
        ELSE
          LET st1 == [lines   |-> Append(st.lines,
                                    [prefix |-> line_prefix, node |-> node, marker |-> ""]),
                      visited |-> st.visited \cup {node}]
              children == sorted(get(adj, node, {}))
          IN  walk_children(adj, children, 1, prefix, is_last, st1)

walk(adj, node, prefix, is_last, st) ==
    LET connector   == IF is_last THEN Ell ELSE Tee
        line_prefix == IF prefix # <<>> THEN Append(prefix, connector) ELSE <<>>
    IN  IF node \in st.visited
          THEN [st EXCEPT !.lines =
                    Append(@, [prefix |-> line_prefix, node |-> node, marker |-> Repeated])]
        ELSE
          LET st1 == [lines   |-> Append(st.lines,
                                    [prefix |-> line_prefix, node |-> node, marker |-> ""]),
                      visited |-> st.visited \cup {node}]
              children == sorted(get(adj, node, {}))
          IN  walk_children(adj, children, 1, prefix, is_last, st1)

\* the loop over the children with the visited set kept per branch: what a
\* child marked is forgotten when the child returns
RECURSIVE walk_children_per_branch(_, _, _, _, _, _)
walk_children_per_branch(adj, children, i, prefix, is_last, st) ==
    IF i > Len(children) THEN st
    ELSE
      LET last_child  == (i = Len(children))
          next_prefix == Append(prefix, IF is_last THEN Indent ELSE Bar)
          r == walk(adj, children[i], next_prefix, last_child, st)
      IN  walk_children_per_branch(adj, children, i + 1, prefix, is_last,
                                   [r EXCEPT !.visited = st.visited])

walk_children(adj, children, i, prefix, is_last, st) ==
    IF i > Len(children) THEN st
    ELSE
      LET last_child  == (i = Len(children))
          next_prefix == Append(prefix, IF is_last THEN Indent ELSE Bar)
      IN  walk_children(adj, children, i + 1, prefix, is_last,
                        walk(adj, children[i], next_prefix, last_child, st))

\* ascii_tree(graph, root); the result is the list of lines joined by "\n"
ascii_tree(adj, root) ==
    IF root \notin KeySet(adj)
      THEN << [prefix |-> <<>>, node |-> root, marker |-> Absent] >>
    ELSE walk(adj, root, <<>>, TRUE, [lines |-> <<>>, visited |-> {}]).lines

\* ------------------------------------------- the store after a read access

\* adjacency[k] on the defaultdict: k is inserted with an empty set when
\* absent
getitem(d, k) == setdefault(d, k, {})

\* a lookup that behaves as adjacency[k]
lookup_inserting(d, k) == setdefault(d, k, {})

\* k in adjacency, adjacency.get(k, default), adjacency.items() and
\* adjacency.keys(): nothing is inserted
lookup(d, k) == d

RECURSIVE getitems(_, _)
getitems(d, ks) == IF ks = <<>> THEN d ELSE getitems(getitem(d, Head(ks)), Tail(ks))

RECURSIVE lookups(_, _)
lookups(d, ks) == IF ks = <<>> THEN d ELSE lookups(lookup(d, Head(ks)), Tail(ks))

\* self.adjacency after bfs_dependencies: root is tested with "in", every
\* visited node is read with get() in the loop and again for the subgraph
bfs_dependencies_store(adj, root, perm) ==
    LET a0 == lookup(adj, root)
        visit == bfs_dependencies(adj, root, perm).keys
    IN  IF root \notin KeySet(adj) THEN a0 ELSE lookups(a0, visit \o visit)

\* self.adjacency after load_order, which reads it through bfs_dependencies
load_order_store(adj, root, perm) == bfs_dependencies_store(adj, root, perm)

\* self.adjacency after to_graphviz: with root None sub is self.adjacency
\* and sub[node] is read for every key
to_graphviz_store(adj, root, perm) ==
    IF root # <<>> THEN bfs_dependencies_store(adj, root[1], perm)
    ELSE getitems(lookups(adj, adj.keys), adj.keys)

\* self.adjacency after reverse_dependencies, which reads items() only
reverse_dependencies_store(adj, perm) == lookups(adj, adj.keys)

\* graph.adjacency after ascii_tree: root is tested with "in", every
\* expanded node is read with get()
ascii_tree_store(adj, root) ==
    LET shown    == ascii_tree(adj, root)
        expanded == SelectSeq(shown, LAMBDA l : l.marker = "")
    IN  IF root \notin KeySet(adj) THEN lookup(adj, root)
        ELSE lookups(lookup(adj, root), [i \in DOMAIN expanded |-> expanded[i].node])

\* ------------------------------------------------------------ state machine

VARIABLES
    held,        \* TRUE while the caller holds a DependencyGraph object
    adjacency,   \* DependencyGraph.adjacency of that object
    calls,       \* add_edge calls made so far by the caller
    text,        \* the raw lines the store was built from by from_test_file
    error,       \* <<line>> when from_test_file raised ValueError naming line
    op,          \* the call that has just returned, "idle" between calls
    args,        \* its arguments
    reachable,   \* the mapping returned by bfs_dependencies
    order,       \* the list returned by load_order
    lines,       \* the lines returned by to_graphviz or ascii_tree
    reversed,    \* the adjacency of the store returned by reverse_dependencies
    enqueued,    \* what entered the queue of the last bfs_dependencies call
    pc,          \* where an ascii_tree call in progress is, "none" outside one
    stack,       \* the walk calls in progress, the innermost last
    visited      \* the set visited of the ascii_tree call in progress

vars == <<held, adjacency, calls, text, error, op, args, reachable, order, lines, reversed, enqueued,
         pc, stack, visited>>

walkvars == <<pc, stack, visited>>

\* texts of at most MaxLines lines
RECURSIVE SeqsUpTo(_, _)
SeqsUpTo(S, n) ==
    IF n = 0 THEN {<<>>}
    ELSE LET shorter == SeqsUpTo(S, n - 1)
         IN  shorter \cup {Append(t, x) : t \in {u \in shorter : Len(u) = n - 1}, x \in S}

Texts == SeqsUpTo(SampleLines, MaxLines)

\* the state after DependencyGraph()
Init ==
    /\ held = TRUE
    /\ adjacency = EmptyDict
    /\ calls = 0
    /\ text = <<>>
    /\ error = <<>>
    /\ op = "idle"
    /\ args = <<>>
    /\ reachable = EmptyDict
    /\ order = <<>>
    /\ lines = <<>>
    /\ reversed = EmptyDict
    /\ enqueued = <<>>
    /\ pc = "none"
    /\ stack = <<>>
    /\ visited = {}

\* the roots a query is called with: every key and one name that is no key
Roots == KeySet(adjacency) \cup {Unknown}

\* the names that share an out-set with another name: the sets a call
\* iterates are out-sets of the store or parts of them
Shared(d) == UNION {d.val[k] : k \in {j \in KeySet(d) : Cardinality(d.val[j]) >= 2}}

\* the iteration orders a call can meet: every order of the names that share
\* an out-set, followed by the other names, whose places have no effect
Orders ==
    {p \o SelectSeq(NameOrder, LAMBDA x : x \in Mentioned(adjacency) \ Shared(adjacency)) :
        p \in Perms(Shared(adjacency))}

NoResult == reachable' = EmptyDict /\ order' = <<>> /\ lines' = <<>> /\ reversed' = EmptyDict /\ enqueued' = <<>>

\* graph.add_edge(src, dst) on a store built by insertions
CallAddEdge ==
    /\ op = "idle" /\ held /\ text = <<>> /\ calls < MaxCalls
    /\ \E src \in Names, dst \in Names :
         /\ adjacency' = add_edge(adjacency, src, dst)
         /\ args' = <<src, dst>>
    /\ calls' = calls + 1
    /\ op' = "add_edge"
    /\ NoResult
    /\ UNCHANGED <<held, text, error>>
    /\ UNCHANGED walkvars

\* graph = DependencyGraph.from_edges(edges) as the first call of a run
CallFromEdges ==
    /\ op = "idle" /\ held /\ calls = 0 /\ text = <<>>
    /\ \E edges \in SeqsUpTo(Names \X Names, MaxCalls) :
         /\ adjacency' = from_edges(edges)
         /\ calls' = Len(edges)
         /\ args' = <<edges>>
    /\ op' = "from_edges"
    /\ NoResult
    /\ UNCHANGED <<held, text, error>>
    /\ UNCHANGED walkvars

\* graph = DependencyGraph.from_test_file(path) as the first call of a run
CallFromTestFile ==
    /\ op = "idle" /\ held /\ calls = 0 /\ text = <<>>
    /\ \E raw_lines \in Texts :
         LET r == from_test_file(raw_lines)
         IN  /\ text' = raw_lines
             /\ held' = ~r.error
             /\ adjacency' = IF r.error THEN EmptyDict ELSE r.g
             /\ error' = IF r.error THEN <<r.line>> ELSE <<>>
    /\ op' = "from_test_file"
    /\ args' = <<>>
    /\ NoResult
    /\ UNCHANGED calls
    /\ UNCHANGED walkvars

\* graph.bfs_dependencies(root)
CallBfs ==
    /\ op = "idle" /\ held
    /\ \E root \in Roots, perm \in Orders :
         /\ reachable' = bfs_dependencies(adjacency, root, perm)
         /\ enqueued' = bfs_enqueued(adjacency, root, perm)
         /\ adjacency' = bfs_dependencies_store(adjacency, root, perm)
         /\ args' = <<root>>
    /\ op' = "bfs_dependencies"
    /\ order' = <<>> /\ lines' = <<>> /\ reversed' = EmptyDict
    /\ UNCHANGED <<held, calls, text, error>>
    /\ UNCHANGED walkvars

\* graph.load_order(root)
CallLoadOrder ==
    /\ op = "idle" /\ held
    /\ \E root \in Roots, perm \in Orders :
         /\ order' = load_order(adjacency, root, perm)
         /\ adjacency' = load_order_store(adjacency, root, perm)
         /\ args' = <<root>>
    /\ op' = "load_order"
    /\ reachable' = EmptyDict /\ lines' = <<>> /\ reversed' = EmptyDict /\ enqueued' = <<>>
    /\ UNCHANGED <<held, calls, text, error>>
    /\ UNCHANGED walkvars

\* graph.to_graphviz(root), root None or a name
CallToGraphviz ==
    /\ op = "idle" /\ held
    /\ \E root \in {<<>>} \cup {<<r>> : r \in Roots}, perm \in Orders :
         /\ lines' = to_graphviz(adjacency, root, perm)
         /\ adjacency' = to_graphviz_store(adjacency, root, perm)
         /\ args' = <<root>>
    /\ op' = "to_graphviz"
    /\ reachable' = EmptyDict /\ order' = <<>> /\ reversed' = EmptyDict /\ enqueued' = <<>>
    /\ UNCHANGED <<held, calls, text, error>>
    /\ UNCHANGED walkvars

\* ascii_tree(graph, root)
CallAsciiTree ==
    /\ op = "idle" /\ held
    /\ \E root \in Roots :
         /\ lines' = ascii_tree(adjacency, root)
         /\ adjacency' = ascii_tree_store(adjacency, root)
         /\ args' = <<root>>
    /\ op' = "ascii_tree"
    /\ reachable' = EmptyDict /\ order' = <<>> /\ reversed' = EmptyDict /\ enqueued' = <<>>
    /\ UNCHANGED <<held, calls, text, error>>
    /\ UNCHANGED walkvars

\* graph.reverse_dependencies()
CallReverse ==
    /\ op = "idle" /\ held
    /\ \E perm \in Orders :
         /\ reversed' = reverse_dependencies(adjacency, perm)
         /\ adjacency' = reverse_dependencies_store(adjacency, perm)
    /\ op' = "reverse_dependencies"
    /\ args' = <<>>
    /\ reachable' = EmptyDict /\ order' = <<>> /\ lines' = <<>> /\ enqueued' = <<>>
    /\ UNCHANGED <<held, calls, text, error>>
    /\ UNCHANGED walkvars

\* the caller has used the value a call returned (the stage drivers print
\* it) and goes on to its next call
Return ==
    /\ op # "idle"
    /\ op' = "idle"
    /\ args' = <<>>
    /\ NoResult
    /\ UNCHANGED <<held, adjacency, calls, text, error>>
    /\ UNCHANGED walkvars

Next ==
    \/ CallAddEdge
    \/ CallFromEdges
    \/ CallFromTestFile
    \/ CallBfs
    \/ CallLoadOrder
    \/ CallToGraphviz
    \/ CallAsciiTree
    \/ CallReverse
    \/ Return

Spec == Init /\ [][Next]_vars

TypeOK ==
    /\ held \in BOOLEAN
    /\ calls \in 0..MaxCalls
    /\ Len(adjacency.keys) = Cardinality(KeySet(adjacency))
    /\ Range(adjacency.keys) = KeySet(adjacency)
    /\ Mentioned(adjacency) \subseteq Range(NameOrder)

\* ------------------------------------------- ascii_tree, statement by statement

\* the depth of walk calls followed
MaxDepth == 5

\* visited.add(node) without effect
visited_add_nothing(seen, node) == seen

\* visited.add(node)
visited_add(seen, node) == seen \cup {node}

\* the activation of walk(node, prefix, is_last): at "entry" before its first
\* statement, at "loop" in the for loop with children[i] the next child
Activation(node, prefix, is_last) ==
    [node |-> node, prefix |-> prefix, is_last |-> is_last,
     at |-> "entry", children |-> <<>>, i |-> 1]

Top == stack[Len(stack)]

Pop == SubSeq(stack, 1, Len(stack) - 1)

line_prefix(f) ==
    IF f.prefix # <<>> THEN Append(f.prefix, IF f.is_last THEN Ell ELSE Tee) ELSE <<>>

Untouched == UNCHANGED <<held, adjacency, calls, text, error, reachable, order, reversed, enqueued>>

\* ascii_tree(graph, root) has been called on a store built by from_edges
InitWalk ==
    /\ held = TRUE
    /\ \E edges \in SeqsUpTo(Names \X Names, MaxCalls) :
         /\ adjacency = from_edges(edges)
         /\ calls = Len(edges)
         /\ \E root \in KeySet(from_edges(edges)) \cup {Unknown} : args = <<root>>
    /\ text = <<>>
    /\ error = <<>>
    /\ op = "idle"
    /\ reachable = EmptyDict
    /\ order = <<>>
    /\ lines = <<>>
    /\ reversed = EmptyDict
    /\ enqueued = <<>>
    /\ pc = "call"
    /\ stack = <<>>
    /\ visited = {}

\* if root not in graph.adjacency: return f"{root} (not in graph)"
TreeAbsent ==
    /\ pc = "call" /\ args[1] \notin KeySet(adjacency)
    /\ lines' = << [prefix |-> <<>>, node |-> args[1], marker |-> Absent] >>
    /\ op' = "ascii_tree"
    /\ pc' = "none"
    /\ UNCHANGED <<args, stack, visited>>
    /\ Untouched

\* lines = [], visited = set(), walk(root, "", True)
TreeStart ==
    /\ pc = "call" /\ args[1] \in KeySet(adjacency)
    /\ lines' = <<>>
    /\ visited' = {}
    /\ stack' = << Activation(args[1], <<>>, TRUE) >>
    /\ pc' = "walk"
    /\ UNCHANGED <<op, args>>
    /\ Untouched

\* if node in visited: lines.append(... (...)); return
WalkRepeat ==
    /\ pc = "walk" /\ stack # <<>> /\ Top.at = "entry"
    /\ Top.node \in visited
    /\ lines' = Append(lines, [prefix |-> line_prefix(Top), node |-> Top.node, marker |-> Repeated])
    /\ stack' = Pop
    /\ UNCHANGED <<op, args, pc, visited>>
    /\ Untouched

\* lines.append(...); visited.add(node); children = sorted(...)
WalkExpand ==
    /\ pc = "walk" /\ stack # <<>> /\ Top.at = "entry"
    /\ Top.node \notin visited
    /\ lines' = Append(lines, [prefix |-> line_prefix(Top), node |-> Top.node, marker |-> ""])
    /\ visited' = visited_add(visited, Top.node)
    /\ stack' = [stack EXCEPT ![Len(stack)] =
                    [@ EXCEPT !.at = "loop",
                              !.children = sorted(get(adjacency, Top.node, {})),
                              !.i = 1]]
    /\ UNCHANGED <<op, args, pc>>
    /\ Untouched

\* one turn of the for loop: walk(child, next_prefix, last_child)
WalkChild ==
    /\ pc = "walk" /\ stack # <<>> /\ Top.at = "loop"
    /\ Top.i <= Len(Top.children)
    /\ Len(stack) < MaxDepth
    /\ LET last_child  == (Top.i = Len(Top.children))
           next_prefix == Append(Top.prefix, IF Top.is_last THEN Indent ELSE Bar)
       IN  stack' = Append([stack EXCEPT ![Len(stack)].i = @ + 1],
                           Activation(Top.children[Top.i], next_prefix, last_child))
    /\ UNCHANGED <<op, args, pc, lines, visited>>
    /\ Untouched

\* the for loop is exhausted and walk returns
WalkLeave ==
    /\ pc = "walk" /\ stack # <<>> /\ Top.at = "loop"
    /\ Top.i > Len(Top.children)
    /\ stack' = Pop
    /\ UNCHANGED <<op, args, pc, lines, visited>>
    /\ Untouched

\* walk(root, "", True) has returned: return "\n".join(lines)
TreeReturn ==
    /\ pc = "walk" /\ stack = <<>>
    /\ op' = "ascii_tree"
    /\ pc' = "none"
    /\ visited' = {}
    /\ UNCHANGED <<args, lines, stack>>
    /\ Untouched

NextWalk ==
    \/ TreeAbsent
    \/ TreeStart
    \/ WalkRepeat
    \/ WalkExpand
    \/ WalkChild
    \/ WalkLeave
    \/ TreeReturn

\* the interpreter runs the call in progress to its next statement
SpecWalk == InitWalk /\ [][NextWalk]_vars /\ WF_vars(NextWalk)

\* the statements of ascii_tree produce what the function ascii_tree gives
StepsAgree == op = "ascii_tree" => lines = ascii_tree(adjacency, args[1])

\* ------------------------------------------------- vocabulary of the claims

\* the edges of a mapping from names to out-sets
Edges(d) == {e \in KeySet(d) \X Mentioned(d) : e[2] \in d.val[e[1]]}

\* the names reachable from the members of S by a directed path of length >= 0
RECURSIVE Closure(_, _)
Closure(d, S) ==
    LET step == S \cup {e[2] : e \in {f \in Edges(d) : f[1] \in S}}
    IN  IF step = S THEN S ELSE Closure(d, step)

ReachSet(d, root) == Closure(d, {root})

\* the edges of the subgraph of d reachable from root
SubEdges(d, root) ==
    {e \in Edges(d) : e[1] \in ReachSet(d, root) /\ e[2] \in ReachSet(d, root)}

\* v lies on a cycle (or self-loop) of d
OnCycle(d, v) == \E e \in Edges(d) : e[1] = v /\ v \in ReachSet(d, e[2])

\* the subgraph of d reachable from root has no cycle
AcyclicFrom(d, root) == \A v \in ReachSet(d, root) : ~OnCycle(d, v)

KnownRoot == args # <<>> /\ args[1] \in KeySet(adjacency)

\* u occurs in the sequence, and before any occurrence of v
Before(s, u, v) == IndexOf(s, u) > 0 /\ IndexOf(s, v) > 0 /\ IndexOf(s, u) < IndexOf(s, v)

\* ------------------------------------------------------------------- claims

\* C1: the key set of bfs_dependencies(root), for a known root, is exactly
\* the set of vertices reachable from root by a directed path of length >= 0
C1_BfsKeysAreReachable ==
    (op = "bfs_dependencies" /\ KnownRoot)
        => KeySet(reachable) = ReachSet(adjacency, args[1])

\* a traversal that leaves out a vertex of the store that has an edge into
\* the reachable part, and reaches a vertex other than the root
C1_Witness ==
    /\ op = "bfs_dependencies" /\ KnownRoot
    /\ \E e \in Edges(adjacency) :
         e[1] \notin KeySet(reachable) /\ e[2] \in KeySet(reachable)
    /\ \E v \in KeySet(reachable) : v # args[1]

\* C2: when the reachable subgraph is acyclic, load_order(root) puts u at a
\* strictly smaller index than v for every edge (u -> v) of that subgraph
C2_LoadOrderTopological ==
    (op = "load_order" /\ KnownRoot /\ AcyclicFrom(adjacency, args[1]))
        => \A e \in SubEdges(adjacency, args[1]) : Before(order, e[1], e[2])

\* an acyclic subgraph with a vertex that has two incoming edges
C2_Witness ==
    /\ op = "load_order" /\ KnownRoot /\ AcyclicFrom(adjacency, args[1])
    /\ Cardinality(SubEdges(adjacency, args[1])) >= 3

\* C3: when the reachable subgraph is acyclic, load_order(root) lists
\* dependencies before dependents: for every edge (src -> dst) dst comes
\* before src, so the root is the last element
C3_DependenciesFirst ==
    (op = "load_order" /\ KnownRoot /\ AcyclicFrom(adjacency, args[1]))
        => /\ \A e \in SubEdges(adjacency, args[1]) : Before(order, e[2], e[1])
           /\ order[Len(order)] = args[1]

\* C4: for every known root, cycles and self-loops included, load_order(root)
\* is a permutation of the vertices of the reachable subgraph
C4_LoadOrderPermutation ==
    (op = "load_order" /\ KnownRoot)
        => /\ Range(order) = ReachSet(adjacency, args[1])
           /\ Len(order) = Cardinality(ReachSet(adjacency, args[1]))

\* a subgraph with a cycle next to a vertex outside every cycle
C4_Witness ==
    /\ op = "load_order" /\ KnownRoot
    /\ \E v \in ReachSet(adjacency, args[1]) : OnCycle(adjacency, v)
    /\ \E v \in ReachSet(adjacency, args[1]) : ~OnCycle(adjacency, v)
    /\ Len(order) >= 3

\* C5: every name that occurs as the source or destination of an edge of the
\* store is a key of the adjacency mapping
C5_NoDanglingVertices ==
    held => \A e \in Edges(adjacency) : e[1] \in KeySet(adjacency) /\ e[2] \in KeySet(adjacency)

\* add_edge has just registered a destination that has no out-edges
C5_Witness ==
    /\ op = "add_edge"
    /\ args[1] # args[2]
    /\ adjacency.val[args[2]] = {}
    /\ adjacency.keys[Len(adjacency.keys)] = args[2]

\* C6: add_edge(src, dst) called twice leaves the whole store (key order
\* and every out-set) as it is after one call, src = dst included
C6_AddEdgeIdempotent ==
    held => \A src \in Names, dst \in Names :
                add_edge(add_edge(adjacency, src, dst), src, dst) = add_edge(adjacency, src, dst)

\* the same pair has been added twice: two calls, one edge
C6_Witness ==
    /\ op = "add_edge" /\ calls = 2
    /\ Edges(adjacency) = {<<args[1], args[2]>>}

\* C7: for a root that is no key of the store bfs_dependencies returns an
\* empty mapping and load_order an empty ordering
C7_UnknownRootEmpty ==
    /\ (op = "bfs_dependencies" /\ ~KnownRoot) => reachable = EmptyDict
    /\ (op = "load_order" /\ ~KnownRoot) => order = <<>>

\* load_order of an unknown root on a store that has edges
C7_Witness ==
    /\ op = "load_order" /\ ~KnownRoot
    /\ Edges(adjacency) # {}

\* the non-whitespace characters of a raw line
NonBlank(raw) == SelectSeq(raw, LAMBDA c : c \notin Whitespace)
IsBlankLine(raw) == NonBlank(raw) = <<>>
IsCommentLine(raw) == NonBlank(raw) # <<>> /\ Head(NonBlank(raw)) = "#"
IsSkipped(raw) == IsBlankLine(raw) \/ IsCommentLine(raw)
IsMalformed(raw) == ~IsSkipped(raw) /\ ":" \notin Range(raw)
Malformed(t) == {i \in DOMAIN t : IsMalformed(t[i])}
FirstMalformed(t) == CHOOSE i \in Malformed(t) : \A j \in Malformed(t) : i <= j

\* C8: from_test_file raises a format error naming the first line that is
\* neither blank nor a comment and has no ':', and then returns no graph,
\* whatever lines came before; blank lines and comment lines never raise
\* and add no vertex or edge
C8_MalformedLineAborts ==
    op = "from_test_file" =>
        /\ Malformed(text) # {} =>
              /\ ~held
              /\ error = <<strip(text[FirstMalformed(text)])>>
        /\ Malformed(text) = {} => held /\ error = <<>>
        /\ held => adjacency = from_test_file(SelectSeq(text, LAMBDA raw : ~IsSkipped(raw))).g
        /\ (\A i \in DOMAIN text : IsSkipped(text[i])) => adjacency = EmptyDict

\* a malformed second line after a first line that added edges
C8_Witness ==
    /\ op = "from_test_file" /\ ~held
    /\ Len(text) >= 2
    /\ Edges(from_test_file(<<text[1]>>).g) # {}
    /\ IsMalformed(text[2])

\* the lines of ascii_tree that show v
LinesOf(v) == {i \in DOMAIN lines : lines[i].node = v}

\* C9: ascii_tree shows each vertex expanded at most once; every later
\* encounter of it is one line carrying the "(...)" marker that has no
\* children under it
C9_ExpandedAtMostOnce ==
    (op = "ascii_tree" /\ KnownRoot) =>
        /\ \A i \in DOMAIN lines :
              lines[i].marker = (IF \E j \in LinesOf(lines[i].node) : j < i THEN Repeated ELSE "")
        /\ \A i \in DOMAIN lines :
              (lines[i].marker = Repeated /\ i < Len(lines))
                  => Len(lines[i + 1].prefix) <= Len(lines[i].prefix)

\* a tree with a self-loop leaf and a vertex met again on another path
C9_Witness ==
    /\ op = "ascii_tree" /\ KnownRoot
    /\ \E i \in DOMAIN lines : lines[i].marker = Repeated /\ lines[i].node = args[1]
    /\ \E i \in DOMAIN lines : lines[i].marker = Repeated /\ lines[i].node # args[1]

\* the lines to_graphviz is to emit
OpenLine == <<"digraph deps {">>
CloseLine == <<"}">>
EdgeLine(e) == <<"    \"", e[1], "\" -> \"", e[2], "\";">>
NodeLine(v) == <<"    \"", v, "\";">>
Count(s, x) == Cardinality({i \in DOMAIN s : s[i] = x})

\* the vertices and edges of the graph to_graphviz(root) uses
UsedVertices ==
    IF args[1] = <<>> THEN KeySet(adjacency)
    ELSE IF args[1][1] \in KeySet(adjacency) THEN ReachSet(adjacency, args[1][1])
    ELSE {}
UsedEdges == {e \in Edges(adjacency) : e[1] \in UsedVertices /\ e[2] \in UsedVertices}
UsedSinks == {v \in UsedVertices : \A e \in UsedEdges : e[1] # v}

\* C10: to_graphviz emits, inside one digraph block, exactly one edge line
\* per edge of the graph it uses, exactly one standalone node line per
\* vertex of that graph with an empty out-set, and no other line
C10_GraphvizLines ==
    op = "to_graphviz" =>
        /\ Len(lines) >= 2
        /\ lines[1] = OpenLine /\ lines[Len(lines)] = CloseLine
        /\ \A i \in 2..(Len(lines) - 1) :
              \/ \E e \in UsedEdges : lines[i] = EdgeLine(e)
              \/ \E v \in UsedSinks : lines[i] = NodeLine(v)
        /\ \A e \in UsedEdges : Count(lines, EdgeLine(e)) = 1
        /\ \A v \in UsedSinks : Count(lines, NodeLine(v)) = 1
        /\ \A v \in UsedVertices : \E i \in DOMAIN lines : v \in Range(lines[i])

\* the store of "A: B C / B: D / C: / D:" rendered from root A, with a
\* vertex set apart from the whole store's
C10_Witness ==
    /\ op = "to_graphviz" /\ args[1] = <<"A">>
    /\ Edges(adjacency) = {<<"A", "B">>, <<"A", "C">>, <<"B", "D">>}
    /\ Len(lines) = 7

\* C11: reverse_dependencies returns a store with the vertex set of the
\* source in which (b -> a) is an edge exactly when (a -> b) is an edge of
\* the source; vertices without out-edges in the source are still keys
C11_ReverseEdges ==
    op = "reverse_dependencies" =>
        /\ KeySet(reversed) = KeySet(adjacency)
        /\ Edges(reversed) = {<<e[2], e[1]>> : e \in Edges(adjacency)}

\* a store with a vertex that no edge touches and an edge between two others
C11_Witness ==
    /\ op = "reverse_dependencies"
    /\ \E v \in KeySet(adjacency) : \A e \in Edges(adjacency) : e[1] # v /\ e[2] # v
    /\ \E e \in Edges(adjacency) : e[1] # e[2] /\ <<e[2], e[1]>> \notin Edges(adjacency)

\* the calls that only read the store
QueryOps == {"bfs_dependencies", "load_order", "to_graphviz", "reverse_dependencies", "ascii_tree"}

\* C12: bfs_dependencies, load_order, to_graphviz, reverse_dependencies and
\* ascii_tree leave the store as it was, key order and every out-set, for
\* every argument, unknown roots included
C12_QueriesLeaveStore ==
    [][op' \in QueryOps => adjacency' = adjacency]_vars

\* ascii_tree of an unknown root on a store that has edges
C12_Witness ==
    /\ op = "ascii_tree" /\ ~KnownRoot
    /\ Edges(adjacency) # {}

\* the entries of the queue record that name v
Appends(v) == {i \in DOMAIN enqueued : enqueued[i].node = v}

\* C13 as stated: each vertex enters the queue at most once over the whole
\* traversal and no vertex already in visited is appended
C13_EnqueuedAtMostOnce ==
    op = "bfs_dependencies" =>
        /\ \A i \in DOMAIN enqueued : ~enqueued[i].seen
        /\ \A v \in Mentioned(adjacency) : Cardinality(Appends(v)) <= 1

\* C13: during bfs_dependencies no vertex already in visited is appended to
\* the queue; a vertex enters the queue at most once per edge into it from a
\* reachable vertex (the root once, as the initial content), and it is taken
\* into the traversal at most once
C13_VisitedNeverEnqueued ==
    (op = "bfs_dependencies" /\ KnownRoot) =>
        /\ \A i \in DOMAIN enqueued : ~enqueued[i].seen
        /\ Appends(args[1]) = {1}
        /\ \A v \in Mentioned(adjacency) \ {args[1]} :
             Cardinality(Appends(v))
                 <= Cardinality({e \in SubEdges(adjacency, args[1]) : e[2] = v})
        /\ \A i, j \in DOMAIN reachable.keys :
             reachable.keys[i] = reachable.keys[j] => i = j

\* a vertex entered the queue twice: from the root and from another vertex
\* that was processed before it
C13_Witness ==
    /\ op = "bfs_dependencies" /\ KnownRoot
    /\ \E v \in Mentioned(adjacency) : Cardinality(Appends(v)) = 2
    /\ Len(reachable.keys) = 3

\* C14: ascii_tree terminates on every finite store and every root, stores
\* with cycles and self-loops included: the walk returns and the call
\* delivers its list of lines
C14_AsciiTreeTerminates == <>(op = "ascii_tree")

\* the call has returned for a root on a cycle in a store with a self-loop
C14_Witness ==
    /\ op = "ascii_tree" /\ pc = "none" /\ KnownRoot
    /\ \E e \in Edges(adjacency) : e[1] # e[2] /\ e[1] \in ReachSet(adjacency, e[2])
    /\ \E e \in SubEdges(adjacency, args[1]) : e[1] = e[2]
    /\ OnCycle(adjacency, args[1])

\* v can be reached, in the subgraph reachable from root, from a vertex that
\* lies on a cycle (a vertex on a cycle reaches itself)
BelowCycle(d, root, v) ==
    \E w \in ReachSet(d, root) : OnCycle(d, w) /\ v \in ReachSet(d, w)

\* C15 as stated: in a reachable subgraph with a cycle, u comes before v in
\* load_order(root) for every edge (u -> v) whose ends both lie on no cycle
C15_OffCycleEdgesOrdered ==
    (op = "load_order" /\ KnownRoot /\ ~AcyclicFrom(adjacency, args[1]))
        => \A e \in SubEdges(adjacency, args[1]) :
             (~OnCycle(adjacency, e[1]) /\ ~OnCycle(adjacency, e[2]))
                 => Before(order, e[1], e[2])

\* C15: in a reachable subgraph with a cycle, u comes before v in
\* load_order(root) for every edge (u -> v) whose source u cannot be reached
\* from a vertex on a cycle; the vertices that can be reached from a cycle
\* form the tail, which follows the traversal order of bfs_dependencies
C15_AboveCycleEdgesOrdered ==
    (op = "load_order" /\ KnownRoot /\ ~AcyclicFrom(adjacency, args[1]))
        => /\ \A e \in SubEdges(adjacency, args[1]) :
                ~BelowCycle(adjacency, args[1], e[1]) => Before(order, e[1], e[2])
           /\ \A u, v \in ReachSet(adjacency, args[1]) :
                (~BelowCycle(adjacency, args[1], u) /\ BelowCycle(adjacency, args[1], v))
                    => Before(order, u, v)

\* a cycle below two vertices that an edge joins
C15_Witness ==
    /\ op = "load_order" /\ KnownRoot /\ ~AcyclicFrom(adjacency, args[1])
    /\ \E e \in SubEdges(adjacency, args[1]) :
         /\ ~BelowCycle(adjacency, args[1], e[1])
         /\ ~BelowCycle(adjacency, args[1], e[2])

\* C16: load_order gives the same sequence for the same store and root
\* whatever the order in which the out-edge sets are iterated
C16_LoadOrderDeterministic ==
    op = "load_order" =>
        \A perm \in Orders : load_order(adjacency, args[1], perm) = order

\* C17: every key of a store built by from_test_file from a text without a
\* format error is a non-empty string
C17_KeysNonEmpty ==
    (op = "from_test_file" /\ held) => \A k \in KeySet(adjacency) : k # ""

\* C18: for every known root, cyclic subgraph or not, the first element of
\* load_order(root) is the root
C18_RootFirst ==
    (op = "load_order" /\ KnownRoot) => (order # <<>> /\ order[1] = args[1])

\* the root lies on a cycle through another vertex, so no vertex has
\* in-degree 0 and the whole order is the fallback tail
C18_Witness ==
    /\ op = "load_order" /\ KnownRoot
    /\ \E v \in ReachSet(adjacency, args[1]) \ {args[1]} : args[1] \in ReachSet(adjacency, v)
    /\ Len(order) >= 3

\* C19: for every known root ascii_tree(root) has exactly 1 + E lines, E the
\* number of edges of the reachable subgraph: one line for the root and one
\* per edge, an expanded child or a "(...)" leaf
C19_LineCount ==
    (op = "ascii_tree" /\ KnownRoot)
        => Len(lines) = 1 + Cardinality(SubEdges(adjacency, args[1]))

\* a tree with a repeated leaf, an expanded inner vertex and at least three
\* edges
C19_Witness ==
    /\ op = "ascii_tree" /\ KnownRoot
    /\ \E i \in DOMAIN lines : lines[i].marker = Repeated
    /\ \E i \in DOMAIN lines : lines[i].marker = "" /\ Len(lines[i].prefix) >= 3
    /\ Cardinality(SubEdges(adjacency, args[1])) >= 3

====
